---- MODULE Spec2Model ----
(***************************************************************************)
(* The spots router of the rental-listing service (src/unnamed/part_000):  *)
(* the three validation rule sets, the spot handlers and the nested review *)
(* handlers, over a store of Spot and Review rows.  Every handler is an    *)
(* async function: each `await` of a data-store call is a point where      *)
(* another request's step may run, so a handler with several awaits is     *)
(* several actions, one per data-store statement.                          *)
(***************************************************************************)
EXTENDS Integers, Sequences, FiniteSets, TLC

(* ------------------------------ bounds -------------------------------- *)

\* Authenticated users have ids 1..NumUsers.
NumUsers == 2
\* Spot.create is not issued once this many spots were ever created.
MaxSpots == 2
\* Requests served in one behaviour of Spec.
MaxRequests == 3
\* Requests served in one behaviour of SpecValidation.
ValidationRequests == 1
\* Requests served in one behaviour of SpecAgg.
AggRequests == 2
\* Seeded reviews per spot in SpecAgg are written by users 1..MaxSeedAuthors.
MaxSeedAuthors == 4

\* Requests being handled at once (each a chain of awaits).
Procs == {1, 2}
Users == 1 .. NumUsers
\* req.user is absent: the request carries no valid session.
NoUser == 0
\* The :id / :spotId route parameters tried.
SpotIds == 1 .. MaxSpots

(* --------------------------- JavaScript values ------------------------ *)

\* A request-body value: a tag and, by tag, a string or a number n + f/100.
Undefined == [t |-> "undefined", s |-> "", n |-> 0, f |-> 0]
Null == [t |-> "null", s |-> "", n |-> 0, f |-> 0]
False == [t |-> "boolean", s |-> "", n |-> 0, f |-> 0]
Str(x) == [t |-> "string", s |-> x, n |-> 0, f |-> 0]
Num(k) == [t |-> "number", s |-> "", n |-> k, f |-> 0]
Dec(k, h) == [t |-> "number", s |-> "", n |-> k, f |-> h]

\* JavaScript's falsy values: undefined, null, false, "", 0.
Falsy(v) ==
    \/ v.t \in {"undefined", "null"}
    \/ v.t = "boolean" /\ v.n = 0
    \/ v.t = "string" /\ v.s = ""
    \/ v.t = "number" /\ v.n = 0 /\ v.f = 0

(* ------------------------ validation rule sets ------------------------ *)

\* .exists({ checkFalsy: true })
existsCheckFalsy(v) == ~Falsy(v)

\* .custom((value) => value.length < 50): undefined.length throws, which
\* fails the rule; a number or boolean has no length and undefined < 50 is
\* false.
nameCustomMutant(v) == v.t = "string" /\ Len(v.s) <= 50
nameCustom(v) == v.t = "string" /\ Len(v.s) < 50

\* .custom((value) => Number.isInteger(value) && value > 0 && value < 6)
starsCustomMutant(v) == v.t = "number" /\ v.n > 0 /\ v.n < 6
starsCustom(v) == v.t = "number" /\ v.f = 0 /\ v.n > 0 /\ v.n < 6

EditFields ==
    {"address", "city", "state", "country", "lat", "lng", "name",
     "description", "price"}
ListingFields == EditFields \cup {"previewImage"}

\* The fields of `body` with a failing rule.
validateSpotCreation(body) ==
    {k \in ListingFields : ~existsCheckFalsy(body[k])}
        \cup {k \in {"name"} : ~nameCustom(body[k])}

validateSpotEdit(body) ==
    {k \in EditFields : ~existsCheckFalsy(body[k])}
        \cup {k \in {"name"} : ~nameCustom(body[k])}

validateReviewCreation(body) ==
    {k \in {"review", "stars"} : ~existsCheckFalsy(body[k])}
        \cup {k \in {"stars"} : ~starsCustom(body[k])}

\* The last middleware of each rule set (utils/validation): the request goes
\* on to the handler only when no rule failed, and is answered 400 with the
\* failing fields otherwise.
handleValidationErrors(errors) == errors = {}

\* requireAuth (utils/auth) lets a request through only when req.user is
\* set, and answers it 401 otherwise.
requireAuth(user) == user # NoUser

(* ------------------------------ payloads ------------------------------ *)

\* Names of 49, 50 and 60 characters.
Name49 == "Seaside cottage with a wide view over the harbour"
Name50 == "Seaside cottage with a wide view over the harbours"
Name60 == "Seaside cottage with a wide view over the harbours and piers "

BodyA ==
    [address |-> Str("123 Disney Lane"), city |-> Str("San Francisco"),
     state |-> Str("California"), country |-> Str("United States of America"),
     lat |-> Dec(37, 76), lng |-> Dec(-122, 47), name |-> Str("App Academy"),
     description |-> Str("Place where web developers are created"),
     price |-> Num(123), previewImage |-> Str("image url")]

BodyB ==
    [address |-> Str("9 Harbour Road"), city |-> Str("Lisbon"),
     state |-> Str("Lisboa"), country |-> Str("Portugal"),
     lat |-> Dec(38, 72), lng |-> Dec(-9, 14), name |-> Str(Name49),
     description |-> Str("Quiet flat by the water"),
     price |-> Dec(80, 50), previewImage |-> Str("other url")]

\* Bodies sent to POST /spots and PUT /spots/:spotId in Spec: a valid one,
\* and one with no previewImage, which is valid for an edit only.
SpotBodies == {BodyA, [BodyB EXCEPT !.previewImage = Undefined]}

\* Bodies sent to POST /spots/:spotId/reviews in Spec.
ReviewBodies ==
    {[review |-> Str("This place rocks"), stars |-> Num(5)],
     [review |-> Str("Six stars"), stars |-> Num(6)]}

\* The body sent to POST /spots/:spotId/reviews in SpecAgg.
AggReviewBodies == {[review |-> Str("This place rocks"), stars |-> Num(4)]}

\* Values that are missing or falsy.
BadValues == {Undefined, Null, False, Str(""), Num(0)}

\* Bodies of SpecValidation: every listing field missing or falsy in turn,
\* and names around the 50 character limit and of another type.
ValidationSpotBodies ==
    {BodyA, BodyB}
        \cup {[BodyA EXCEPT ![k] = v] : k \in ListingFields, v \in BadValues}
        \cup {[BodyA EXCEPT !.name = v] :
                 v \in {Str(Name49), Str(Name50), Str(Name60), Num(7)}}

ValidationReviewBodies ==
    [review : {Str("This place rocks"), Undefined, Str("")},
     stars : {Num(k) : k \in {-1, 0, 1, 5, 6}}
                 \cup {Undefined, Dec(2, 50), Str("3")}]

(* ------------------------------- store -------------------------------- *)

VARIABLES
    spots,          \* the Spots table: id -> row
    reviews,        \* the Reviews table: a set of rows
    nextSpotId,     \* the Spots table's autoincrement
    nextReviewId,   \* the Reviews table's autoincrement
    req,            \* per process, the request it is handling and where
    last,           \* the request that completed last, with its response
    creator,        \* history: spot id -> the user whose POST created it
    okDone,         \* history: the (user, spot) pairs with a POST review
                    \*   request that completed with 200
    budget          \* requests still to be served

vars ==
    <<spots, reviews, nextSpotId, nextReviewId, req, last, creator, okDone,
      budget>>

store == <<spots, reviews, nextSpotId, nextReviewId>>

NoBody == [none |-> TRUE]
NoSpot == [id |-> 0]

Idle ==
    [pc |-> "idle", kind |-> "none", user |-> NoUser, id |-> 0,
     body |-> NoBody, spot |-> NoSpot, reviewCount |-> 0,
     fresh |-> FALSE, after200 |-> FALSE, overlap |-> FALSE, stable |-> TRUE]

NoResponse ==
    [kind |-> "none", user |-> NoUser, id |-> 0, body |-> NoBody,
     status |-> 0, out |-> NoBody,
     fresh |-> FALSE, after200 |-> FALSE, overlap |-> FALSE, stable |-> TRUE]

\* The completed exchange: request r answered with `status` and body `out`.
Response(r, status, out) ==
    [kind |-> r.kind, user |-> r.user, id |-> r.id, body |-> r.body,
     status |-> status, out |-> out,
     fresh |-> r.fresh, after200 |-> r.after200, overlap |-> r.overlap,
     stable |-> r.stable]

\* A request as it enters its handler.
Request(kind, user, id, body) ==
    [Idle EXCEPT !.pc = "start", !.kind = kind, !.user = user, !.id = id,
                 !.body = body]

Error(msg) == [message |-> msg]

\* Model.findByPk(id): the row, or null.
findByPkMutant(id) ==
    IF DOMAIN spots = {} THEN Null
    ELSE spots[CHOOSE k \in DOMAIN spots : TRUE]
findByPk(id) == IF id \in DOMAIN spots THEN spots[id] ELSE Null

\* Review rows WHERE spotId = id.
ReviewsOfSpot(id) == {r \in reviews : r.spotId = id}

Init ==
    /\ spots = <<>>
    /\ reviews = {}
    /\ nextSpotId = 1
    /\ nextReviewId = 1
    /\ req = [p \in Procs |-> Idle]
    /\ last = NoResponse
    /\ creator = <<>>
    /\ okDone = {}
    /\ budget = MaxRequests

\* A request may still arrive, and p is the free process that takes it (the
\* first one: free processes are interchangeable).
CanStart(p) ==
    /\ budget > 0
    /\ req[p].pc = "idle"
    /\ \A q \in Procs : q < p => req[q].pc # "idle"

\* Request r of process p ends with this response.
Finish(p, r, status, out) ==
    /\ last' = Response(r, status, out)
    /\ req' = [req EXCEPT ![p] = Idle]

\* A request turned away by its middleware, before its handler.
Rejected(p, r, status, out) ==
    /\ Finish(p, r, status, out)
    /\ budget' = budget - 1
    /\ UNCHANGED <<store, creator, okDone>>

(* ------------------------- GET /spots --------------------------------- *)

GetAllSpots(p) ==
    /\ CanStart(p)
    /\ Finish(p, Request("GetAllSpots", NoUser, 0, NoBody), 200,
              [Spots |-> spots])
    /\ budget' = budget - 1
    /\ UNCHANGED <<store, creator, okDone>>

(* ------------------------- POST /spots -------------------------------- *)

\* Spot.create({ ownerId: req.user.id, ...ten fields })
NewSpotMutant(id, user, body) ==
    [id |-> id, ownerId |-> id] @@ [k \in ListingFields |-> body[k]]
NewSpot(id, user, body) ==
    [id |-> id, ownerId |-> user] @@ [k \in ListingFields |-> body[k]]

PostSpot(p, user, body) ==
    /\ CanStart(p)
    /\ LET r == Request("PostSpot", user, 0, body) IN
       IF ~requireAuth(user)
       THEN Rejected(p, r, 401, Error("Authentication required"))
       ELSE IF ~handleValidationErrors(validateSpotCreation(body))
       THEN Rejected(p, r, 400, [errors |-> validateSpotCreation(body)])
       ELSE /\ nextSpotId <= MaxSpots
            /\ LET spot == NewSpot(nextSpotId, user, body) IN
               /\ spots' = (nextSpotId :> spot) @@ spots
               /\ creator' = (nextSpotId :> user) @@ creator
               /\ Finish(p, r, 200, spot)
            /\ nextSpotId' = nextSpotId + 1
            /\ budget' = budget - 1
            /\ UNCHANGED <<reviews, nextReviewId, okDone>>

(* ------------------------- GET /spots/:id ----------------------------- *)

NotFound == Error("Spot couldn't be found")

\* The handler moves on to its next await.
Goto(p, r, pc) ==
    /\ req' = [req EXCEPT ![p] = [r EXCEPT !.pc = pc]]
    /\ UNCHANGED last

GetSpotFind(p, id) ==
    /\ CanStart(p)
    /\ LET r == Request("GetSpot", NoUser, id, NoBody)
           spotDetails == findByPk(id)
       IN  IF spotDetails = Null
           THEN Finish(p, r, 404, NotFound)
           ELSE Goto(p, [r EXCEPT !.spot = spotDetails], "count")
    /\ budget' = budget - 1
    /\ UNCHANGED <<store, creator, okDone>>

\* SELECT COUNT(review) AS numReviews FROM Reviews WHERE spotId = id:
\* the rows whose review column is not NULL.
numReviews(id) ==
    Cardinality({r \in ReviewsOfSpot(id) :
                   r.review.t \notin {"undefined", "null"}})

RECURSIVE SumStars(_)
SumStars(rows) ==
    IF rows = {} THEN 0
    ELSE LET r == CHOOSE x \in rows : TRUE
         IN  r.stars.n + SumStars(rows \ {r})

\* SELECT SUM(stars) AS sumOfStars FROM Reviews WHERE spotId = id: NULL over
\* no rows.
sumOfStars(id) ==
    IF ReviewsOfSpot(id) = {} THEN Null ELSE Num(SumStars(ReviewsOfSpot(id)))

\* ratingSum / reviewCount in JavaScript: null counts as 0, 0 / 0 is NaN and
\* x / 0 is Infinity for x > 0.
DivideMutant(ratingSum, reviewCount) ==
    LET x == IF ratingSum.t = "null" THEN 0 ELSE ratingSum.n
    IN  IF reviewCount # 0 THEN [k |-> "finite", num |-> x, den |-> reviewCount]
        ELSE [k |-> "finite", num |-> 0, den |-> 1]
Divide(ratingSum, reviewCount) ==
    LET x == IF ratingSum.t = "null" THEN 0 ELSE ratingSum.n
    IN  IF reviewCount # 0 THEN [k |-> "finite", num |-> x, den |-> reviewCount]
        ELSE IF x = 0 THEN [k |-> "NaN", num |-> 0, den |-> 0]
        ELSE [k |-> "Infinity", num |-> x, den |-> 0]

\* t tenths written as toFixed(1) writes them.
Tenths(t) == ToString(t \div 10) \o "." \o ToString(t % 10)

\* Number.prototype.toFixed(1): the string of the n with n / 10 closest to the
\* number, the larger n of two equally close; "NaN" and "Infinity" for those.
\* (The quotient of two integers with a denominator below 20 is halfway
\* between two tenths only at .25 and .75, which a double holds exactly.)
toFixed1Mutant(q) ==
    IF q.k # "finite" THEN q.k ELSE Tenths((10 * q.num) \div q.den)
toFixed1(q) ==
    IF q.k # "finite" THEN q.k
    ELSE Tenths((20 * q.num + q.den) \div (2 * q.den))

GetSpotCount(p) ==
    /\ req[p].kind = "GetSpot" /\ req[p].pc = "count"
    /\ Goto(p, [req[p] EXCEPT !.reviewCount = numReviews(req[p].id),
                              !.stable = TRUE], "sum")
    /\ UNCHANGED <<store, creator, okDone, budget>>

GetSpotSum(p) ==
    /\ req[p].kind = "GetSpot" /\ req[p].pc = "sum"
    /\ LET r == req[p]
           ratingSum == sumOfStars(r.id)
           avgStarRating == toFixed1(Divide(ratingSum, r.reviewCount))
       IN  Finish(p, r, 200,
                  [spot |-> r.spot, numReviews |-> r.reviewCount,
                   avgStarRating |-> avgStarRating])
    /\ UNCHANGED <<store, creator, okDone, budget>>

(* ------------------------- PUT /spots/:spotId ------------------------- *)

\* The test of lines 305 and 338, next to `!spot`: spot.id !== req.user.id.
NotOwner(spot, user) == spot.id # user

\* findByPk(spotId, { attributes: { exclude: ['previewImage'] } })
ExcludePreviewImage(spot) ==
    [k \in DOMAIN spot \ {"previewImage"} |-> spot[k]]

\* row.update({ nine fields }): the row with the nine fields of `body`.
updateMutant(row, body) ==
    [k \in DOMAIN row |-> IF k \in ListingFields THEN body[k] ELSE row[k]]
update(row, body) ==
    [k \in DOMAIN row |-> IF k \in EditFields THEN body[k] ELSE row[k]]

PutSpotFind(p, user, id, body) ==
    /\ CanStart(p)
    /\ LET r == Request("PutSpot", user, id, body)
           spot == findByPk(id)
       IN  IF ~requireAuth(user)
           THEN Finish(p, r, 401, Error("Authentication required"))
           ELSE IF ~handleValidationErrors(validateSpotEdit(body))
           THEN Finish(p, r, 400, [errors |-> validateSpotEdit(body)])
           ELSE IF spot = Null \/ NotOwner(spot, user)
           THEN Finish(p, r, 404, NotFound)
           ELSE Goto(p, [r EXCEPT !.spot = ExcludePreviewImage(spot)], "update")
    /\ budget' = budget - 1
    /\ UNCHANGED <<store, creator, okDone>>

\* UPDATE Spots SET nine fields WHERE id = spot.id; the response is the
\* instance held by the handler.
PutSpotUpdate(p) ==
    /\ req[p].kind = "PutSpot" /\ req[p].pc = "update"
    /\ LET r == req[p] IN
       /\ spots' = [k \in DOMAIN spots |->
                      IF k = r.spot.id THEN update(spots[k], r.body)
                      ELSE spots[k]]
       /\ Finish(p, r, 200, update(r.spot, r.body))
    /\ UNCHANGED <<reviews, nextSpotId, nextReviewId, creator, okDone, budget>>

(* ------------------------ DELETE /spots/:spotId ----------------------- *)

DeleteSpotFind(p, user, id) ==
    /\ CanStart(p)
    /\ LET r == Request("DeleteSpot", user, id, NoBody)
           spot == findByPk(id)
       IN  IF ~requireAuth(user)
           THEN Finish(p, r, 401, Error("Authentication required"))
           ELSE IF spot = Null \/ NotOwner(spot, user)
           THEN Finish(p, r, 404, NotFound)
           ELSE Goto(p, [r EXCEPT !.spot = spot], "destroy")
    /\ budget' = budget - 1
    /\ UNCHANGED <<store, creator, okDone>>

\* Spot.destroy({ where: { id: spotId } })
DeleteSpotDestroy(p) ==
    /\ req[p].kind = "DeleteSpot" /\ req[p].pc = "destroy"
    /\ spots' = [k \in DOMAIN spots \ {req[p].id} |-> spots[k]]
    /\ Finish(p, req[p], 200,
              [message |-> "Successfully deleted", statusCode |-> 200])
    /\ UNCHANGED <<reviews, nextSpotId, nextReviewId, creator, okDone, budget>>

(* --------------------- GET /spots/:spotId/reviews --------------------- *)

GetReviewsFind(p, id) ==
    /\ CanStart(p)
    /\ LET r == Request("GetReviews", NoUser, id, NoBody)
           spotDetails == findByPk(id)
       IN  IF spotDetails = Null
           THEN Finish(p, r, 404, NotFound)
           ELSE Goto(p, [r EXCEPT !.spot = spotDetails], "findAll")
    /\ budget' = budget - 1
    /\ UNCHANGED <<store, creator, okDone>>

GetReviewsFindAll(p) ==
    /\ req[p].kind = "GetReviews" /\ req[p].pc = "findAll"
    /\ Finish(p, req[p], 200, [Reviews |-> ReviewsOfSpot(req[p].id)])
    /\ UNCHANGED <<store, creator, okDone, budget>>

(* --------------------- POST /spots/:spotId/reviews -------------------- *)

\* Review.findOne({ where: { userId, spotId } }) found a row.
existingReviewMutant(user, spotId) == \E r \in reviews : r.spotId = spotId
existingReview(user, spotId) ==
    \E r \in reviews : r.userId = user /\ r.spotId = spotId

\* Whether the Reviews table has a unique index on (userId, spotId): the
\* rule is kept by the handler, not by the storage.
ReviewUniqueIndex == FALSE

\* Another process is inside the review-creation handler for the same user
\* and spot.
SamePair(q, user, id) ==
    req[q].kind = "PostReview" /\ req[q].user = user /\ req[q].id = id

PostReviewFindSpot(p, user, id, body) ==
    /\ CanStart(p)
    /\ LET r == Request("PostReview", user, id, body)
           spot == findByPk(id)
           racing == {q \in Procs \ {p} : SamePair(q, user, id)}
       IN  IF ~requireAuth(user)
           THEN Finish(p, r, 401, Error("Authentication required"))
           ELSE IF ~handleValidationErrors(validateReviewCreation(body))
           THEN Finish(p, r, 400, [errors |-> validateReviewCreation(body)])
           ELSE IF spot = Null
           THEN Finish(p, r, 404, NotFound)
           ELSE /\ req' = [q \in Procs |->
                             IF q = p
                             THEN [r EXCEPT !.pc = "findOne", !.spot = spot,
                                            !.fresh = ~\E x \in reviews :
                                                x.userId = user /\ x.spotId = id,
                                            !.after200 = <<user, id>> \in okDone,
                                            !.overlap = racing # {}]
                             ELSE IF q \in racing
                             THEN [req[q] EXCEPT !.overlap = TRUE]
                             ELSE req[q]]
                /\ UNCHANGED last
    /\ budget' = budget - 1
    /\ UNCHANGED <<store, creator, okDone>>

PostReviewFindOne(p) ==
    /\ req[p].kind = "PostReview" /\ req[p].pc = "findOne"
    /\ IF existingReview(req[p].user, req[p].spot.id)
       THEN Finish(p, req[p], 403,
                   Error("User already has a review for this spot"))
       ELSE Goto(p, req[p], "create")
    /\ UNCHANGED <<store, creator, okDone, budget>>

\* Review.create({ userId: req.user.id, spotId, review, stars })
NewReview(id, r) ==
    [id |-> id, userId |-> r.user, spotId |-> r.id,
     review |-> r.body.review, stars |-> r.body.stars]

PostReviewCreate(p) ==
    /\ req[p].kind = "PostReview" /\ req[p].pc = "create"
    /\ LET r == req[p] IN
       IF ReviewUniqueIndex /\ existingReview(r.user, r.id)
       THEN /\ Finish(p, r, 500, Error("Validation error"))
            /\ UNCHANGED <<reviews, nextReviewId, okDone>>
       ELSE /\ reviews' = reviews \cup {NewReview(nextReviewId, r)}
            /\ nextReviewId' = nextReviewId + 1
            /\ okDone' = okDone \cup {<<r.user, r.id>>}
            /\ last' = Response(r, 200, NewReview(nextReviewId, r))
            \* a spot-details request between its two aggregates has now
            \* counted a set of rows it will not sum
            /\ req' = [q \in Procs |->
                         IF q = p THEN Idle
                         ELSE IF /\ req[q].kind = "GetSpot"
                                 /\ req[q].pc = "sum"
                                 /\ req[q].id = r.id
                         THEN [req[q] EXCEPT !.stable = FALSE]
                         ELSE req[q]]
    /\ UNCHANGED <<spots, nextSpotId, creator, budget>>

(* --------------------------- specifications --------------------------- *)

\* Any request of any user, two at a time.
Next ==
    \E p \in Procs :
        \/ GetAllSpots(p)
        \/ \E id \in SpotIds : GetSpotFind(p, id)
        \/ GetSpotCount(p)
        \/ GetSpotSum(p)
        \/ \E u \in Users \cup {NoUser}, b \in SpotBodies : PostSpot(p, u, b)
        \/ \E u \in Users \cup {NoUser}, id \in SpotIds, b \in SpotBodies :
              PutSpotFind(p, u, id, b)
        \/ PutSpotUpdate(p)
        \/ \E u \in Users \cup {NoUser}, id \in SpotIds : DeleteSpotFind(p, u, id)
        \/ DeleteSpotDestroy(p)
        \/ \E id \in SpotIds : GetReviewsFind(p, id)
        \/ GetReviewsFindAll(p)
        \/ \E u \in Users \cup {NoUser}, id \in SpotIds, b \in ReviewBodies :
              PostReviewFindSpot(p, u, id, b)
        \/ PostReviewFindOne(p)
        \/ PostReviewCreate(p)

Spec == Init /\ [][Next]_vars

\* The validated endpoints alone, with bodies that break each rule in turn,
\* on a store that holds the spot user 1 created.
InitValidation ==
    /\ spots = (1 :> NewSpot(1, 1, BodyA))
    /\ reviews = {}
    /\ nextSpotId = 2
    /\ nextReviewId = 1
    /\ req = [p \in Procs |-> Idle]
    /\ last = NoResponse
    /\ creator = (1 :> 1)
    /\ okDone = {}
    /\ budget = ValidationRequests

NextValidation ==
    \E p \in Procs :
        \/ \E u \in Users, b \in ValidationSpotBodies : PostSpot(p, u, b)
        \/ \E u \in Users, id \in SpotIds, b \in ValidationSpotBodies :
              PutSpotFind(p, u, id, b)
        \/ PutSpotUpdate(p)
        \/ \E u \in Users, id \in SpotIds, b \in ValidationReviewBodies :
              PostReviewFindSpot(p, u, id, b)
        \/ PostReviewFindOne(p)
        \/ PostReviewCreate(p)

SpecValidation == InitValidation /\ [][NextValidation]_vars

\* The star ratings seeded for spot 1, one per author 1..Len, in
\* non-decreasing order (every multiset of up to MaxSeedAuthors ratings).
SeedStars ==
    {st \in UNION {[1 .. k -> 1 .. 5] : k \in 0 .. MaxSeedAuthors} :
        \A i \in DOMAIN st : i = 1 \/ st[i - 1] <= st[i]}

\* Review rows as the seeder inserts them: for spot 1 the ratings st, and
\* one more for spot 2.
SeedReviews(st) ==
    {[id |-> i, userId |-> i, spotId |-> 1,
      review |-> Str("This place is okay"), stars |-> Num(st[i])] :
        i \in DOMAIN st}
    \cup {[id |-> Len(st) + 1, userId |-> 1, spotId |-> 2,
           review |-> Str("This place rocks"), stars |-> Num(5)]}

\* A seeded store: two spots, and reviews of them.
InitAgg ==
    /\ spots = (1 :> NewSpot(1, 1, BodyA)) @@ (2 :> NewSpot(2, 2, BodyB))
    /\ nextSpotId = 3
    /\ \E st \in SeedStars :
          /\ reviews = SeedReviews(st)
          /\ nextReviewId = Cardinality(SeedReviews(st)) + 1
    /\ req = [p \in Procs |-> Idle]
    /\ last = NoResponse
    /\ creator = (1 :> 1) @@ (2 :> 2)
    /\ okDone = {}
    /\ budget = AggRequests

\* Spot-details requests next to review creations.
NextAgg ==
    \E p \in Procs :
        \/ \E id \in SpotIds : GetSpotFind(p, id)
        \/ GetSpotCount(p)
        \/ GetSpotSum(p)
        \/ \E u \in Users, id \in SpotIds, b \in AggReviewBodies :
              PostReviewFindSpot(p, u, id, b)
        \/ PostReviewFindOne(p)
        \/ PostReviewCreate(p)

SpecAgg == InitAgg /\ [][NextAgg]_vars

(* -------------------------------- claims ------------------------------ *)

\* This step takes a request in (its middleware and the first statement of
\* its handler run in it).
Starts == budget' = budget - 1

\* This step takes a request in and answers it at once.
Answered == Starts /\ req' = req

\* This step is the last one of the request process p is handling.
Completes(p, kind) ==
    req[p].kind = kind /\ req[p].pc # "idle" /\ req'[p].pc = "idle"

\* Process p's request enters its handler's second statement in this step.
Enters(p) == Starts /\ req[p].pc = "idle" /\ req'[p].pc # "idle"

StoreUnchanged == UNCHANGED <<spots, reviews, nextSpotId, nextReviewId>>

\* C1: in every reachable state there is at most one review per
\* (userId, spotId) pair, whatever the interleaving of the find-existing and
\* create steps of the review-creation requests.
C1_OneReviewPerUserAndSpot ==
    \A r1, r2 \in reviews :
        r1.userId = r2.userId /\ r1.spotId = r2.spotId => r1 = r2

\* C2: a PUT or DELETE of /spots/:spotId by user u changes or removes spot s
\* only if s.ownerId = u; a request by another user ends in 404 and leaves s
\* unchanged.
C2_OnlyOwnerMutatesOrDeletes ==
    [][
       /\ \A s \in DOMAIN spots :
             (s \notin DOMAIN spots' \/ spots'[s] # spots[s]) =>
                \E p \in Procs :
                    /\ Completes(p, "PutSpot") \/ Completes(p, "DeleteSpot")
                    /\ req[p].id = s
                    /\ req[p].user = spots[s].ownerId
       /\ \A p \in Procs :
             /\ Enters(p)
             /\ req'[p].kind \in {"PutSpot", "DeleteSpot"}
             /\ req'[p].id \in DOMAIN spots
             => spots[req'[p].id].ownerId = req'[p].user]_vars

\* C3: of two POST /spots/:spotId/reviews requests of one user for one
\* existing spot, the second taken in after the first completed, and the
\* user having no review of the spot before: the first ends in 200 and stores
\* one review (the payload's, for that user and spot), the second ends in 403
\* and stores nothing.
C3_SequentialReviews ==
    [][\A p \in Procs :
          Completes(p, "PostReview") =>
             /\ req[p].fresh /\ ~req[p].overlap =>
                   /\ last'.status = 200
                   /\ reviews \subseteq reviews'
                   /\ Cardinality(reviews') = Cardinality(reviews) + 1
                   /\ \A r \in reviews' \ reviews :
                         /\ r.userId = req[p].user
                         /\ r.spotId = req[p].id
                         /\ r.review = req[p].body.review
                         /\ r.stars = req[p].body.stars
                   /\ last'.out \in reviews'
             /\ req[p].after200 =>
                   /\ last'.status = 403
                   /\ reviews' = reviews]_vars

C3_Witness ==
    /\ last.kind = "PostReview"
    /\ last.after200
    /\ last.status = 403
    /\ Cardinality({r \in reviews : r.userId = last.user
                                      /\ r.spotId = last.id}) = 1

\* The requests C4 is about: of one of the five routes that take a spot id,
\* authenticated and with a valid payload where the route asks for them.
C4_Covered(r) ==
    \/ r.kind \in {"GetSpot", "GetReviews"}
    \/ r.kind = "DeleteSpot" /\ r.user \in Users
    \/ r.kind = "PutSpot" /\ r.user \in Users /\ validateSpotEdit(r.body) = {}
    \/ /\ r.kind = "PostReview" /\ r.user \in Users
       /\ validateReviewCreation(r.body) = {}

\* C4: a GET, PUT or DELETE of /spots/:id and a GET or POST of
\* /spots/:spotId/reviews for a spot id that is not in the store ends in 404
\* and leaves the stored spots and reviews as they were.
C4_MissingSpotIsNotFound ==
    [][
       /\ \A p \in Procs : Enters(p) => req'[p].id \in DOMAIN spots
       /\ Answered /\ C4_Covered(last') /\ last'.id \notin DOMAIN spots =>
             /\ last'.status = 404
             /\ StoreUnchanged]_vars

C4_Witness ==
    /\ last.kind = "PostReview"
    /\ last.status = 404
    /\ last.user \in Users
    /\ last.id \notin DOMAIN spots
    /\ spots # <<>>

\* C5: POST /spots by an authenticated user with a valid payload stores
\* exactly one new spot, owned by that user and with the payload's ten
\* listing fields, returns it with status 200 and changes no other spot.
C5_CreateSpot ==
    [][
       /\ Answered
       /\ last'.kind = "PostSpot"
       /\ last'.user \in Users
       /\ validateSpotCreation(last'.body) = {}
       => /\ last'.status = 200
          /\ \E id \in DOMAIN spots' \ DOMAIN spots :
                /\ DOMAIN spots' = DOMAIN spots \cup {id}
                /\ spots'[id].id = id
                /\ spots'[id].ownerId = last'.user
                /\ \A k \in ListingFields : spots'[id][k] = last'.body[k]
                /\ last'.out = spots'[id]
          /\ \A s \in DOMAIN spots : spots'[s] = spots[s]]_vars

C5_Witness ==
    /\ last.kind = "PostSpot"
    /\ last.status = 200
    /\ last.out.id = 2
    /\ last.user # 2
    /\ DOMAIN spots = {1, 2}

C7_Bad(body) ==
    \/ body.stars.t # "number"
    \/ body.stars.f # 0
    \/ body.stars.n < 1
    \/ body.stars.n > 5
    \/ body.review.t = "undefined"
    \/ body.review = Str("")

\* C7: POST /spots/:spotId/reviews with such a payload is answered 400 before
\* the handler runs and stores no review; every stored review has an integer
\* stars value from 1 to 5.
C7_ReviewValidation ==
    [][
       /\ \A p \in Procs :
             Enters(p) /\ req'[p].kind = "PostReview" => ~C7_Bad(req'[p].body)
       /\ Answered /\ last'.kind = "PostReview" /\ last'.user \in Users
             /\ C7_Bad(last'.body) =>
                /\ last'.status = 400
                /\ StoreUnchanged
       /\ \A r \in reviews' :
             r.stars.t = "number" /\ r.stars.f = 0 /\ r.stars.n \in 1 .. 5]_vars

C7_Witness ==
    /\ last.kind = "PostReview"
    /\ last.status = 400
    /\ last.id \in DOMAIN spots
    /\ last.body.stars = Dec(2, 50)
    /\ last.body.review = Str("This place rocks")

\* What C8 calls a bad payload over the fields `required`: one of them
\* missing or falsy, or a name of 50 or more characters.
C8_Bad(body, required) ==
    \/ \E k \in required : Falsy(body[k])
    \/ body.name.t = "string" /\ Len(body.name.s) >= 50

\* C8: POST /spots with a payload bad over the ten listing fields is answered
\* 400 before the handler runs and stores no spot; PUT /spots/:spotId applies
\* the same rules without previewImage (a payload that lacks only the
\* previewImage is not answered 400), and a rejected PUT leaves the spot
\* unchanged.
C8_SpotValidation ==
    [][
       /\ \A p \in Procs :
             Enters(p) /\ req'[p].kind = "PutSpot" =>
                ~C8_Bad(req'[p].body, EditFields)
       /\ Answered /\ last'.user \in Users =>
             /\ last'.kind = "PostSpot" /\ C8_Bad(last'.body, ListingFields) =>
                   last'.status = 400 /\ StoreUnchanged
             /\ last'.kind = "PutSpot" /\ C8_Bad(last'.body, EditFields) =>
                   last'.status = 400 /\ StoreUnchanged
             /\ /\ last'.kind = "PutSpot"
                /\ last'.body \in {[b EXCEPT !.previewImage = Undefined] :
                                     b \in {BodyA, BodyB}}
                => last'.status # 400]_vars

C8_Witness ==
    /\ last.kind = "PutSpot"
    /\ last.status = 400
    /\ last.id \in DOMAIN spots
    /\ last.user = last.id
    /\ last.body.name = Str(Name50)
    /\ spots[last.id].name # Str(Name50)

\* C9: GET /spots/:id of a spot with no reviews (none while the request
\* runs) ends in 200 with numReviews = 0 and an avgStarRating that is
\* not-a-number, and changes nothing in the store.
C9_NoReviews ==
    [][\A p \in Procs :
          /\ \/ Enters(p) /\ req'[p].kind = "GetSpot"
             \/ req[p].kind = "GetSpot" /\ req'[p].pc # req[p].pc
             => StoreUnchanged
          /\ /\ Completes(p, "GetSpot")
             /\ req[p].stable
             /\ ReviewsOfSpot(req[p].id) = {}
             => /\ last'.status = 200
                /\ last'.out.numReviews = 0
                /\ last'.out.avgStarRating = "NaN"
                /\ StoreUnchanged]_vars

C9_Witness ==
    /\ last.kind = "GetSpot"
    /\ last.status = 200
    /\ last.stable
    /\ last.out.numReviews = 0
    /\ last.out.avgStarRating = "NaN"
    /\ last.id \in DOMAIN spots

\* C10: the step of PUT /spots/:spotId that writes sets the nine edit fields
\* of the addressed spot to the payload's and leaves its id, ownerId and
\* previewImage, every other spot and every review unchanged; and every
\* stored spot's ownerId is the user whose request created it.
C10_UpdateFrame ==
    [][
       /\ \A p \in Procs :
             Completes(p, "PutSpot") =>
                /\ last'.status = 200
                /\ DOMAIN spots' = DOMAIN spots
                /\ \A s \in DOMAIN spots :
                      IF s = req[p].id
                      THEN /\ \A k \in EditFields :
                                 spots'[s][k] = req[p].body[k]
                           /\ \A k \in {"id", "ownerId", "previewImage"} :
                                 spots'[s][k] = spots[s][k]
                      ELSE spots'[s] = spots[s]
                /\ reviews' = reviews
       /\ \A s \in DOMAIN spots' : spots'[s].ownerId = creator'[s]]_vars

C10_Witness ==
    /\ last.kind = "PutSpot"
    /\ last.status = 200
    /\ DOMAIN spots = {1, 2}
    /\ last.id \in DOMAIN spots
    /\ spots[last.id].name = last.body.name
    /\ spots[last.id].previewImage # last.body.previewImage
    /\ \E s \in DOMAIN spots : spots[s].name # last.body.name
====
